---- MODULE Spec2Model ----
(***************************************************************************)
(* State-machine model of the WebcamComponent of eye-tracking-js.          *)
(*                                                                         *)
(* The source file holds two editions of the component:                    *)
(*   "WithStart" (lines 8-153): a Start button calls handleStart, which    *)
(*                 requests the camera and registers detectFace as the     *)
(*                 video's loadeddata listener;                            *)
(*   "AutoStart" (lines 164-281): the camera is requested on mount and an  *)
(*                 effect keyed on faceLandmarker registers detectFace.    *)
(* Both share the timer effect and the body of detectFace.                 *)
(*                                                                         *)
(* React is modelled at the level the component is written at: a state     *)
(* setter, the re-render it causes and the effects of that render are one  *)
(* step; refs of host elements are null once the component is unmounted;   *)
(* a state setter called on an unmounted component does nothing.           *)
(*                                                                         *)
(* Time is counted in quanta: StepsPerPeriod quanta make the 1000 ms of    *)
(* the setInterval period.  Events that fall in the same quantum may run   *)
(* in either order.                                                        *)
(***************************************************************************)
EXTENDS Integers, Sequences, FiniteSets, TLC

VARIABLES
    component,      \* which edition of the component is mounted
    mounted,        \* FALSE once the component has been unmounted
    timer,          \* useState(30 * 60)
    timerRunning,   \* useState(false)
    faceLandmarker, \* useState<FaceLandmarker | null>(null)
    isStarted,      \* useState(false)           (WithStart edition only)
    loader,         \* the promise of loadFaceLandmarker
    camera,         \* the promise of navigator.mediaDevices.getUserMedia
    video,          \* the hidden <video>: empty, loading (srcObject set), loaded
    listeners,      \* loadeddata listeners: the handle each detectFace closure captured
    rafQueue,       \* callbacks registered with requestAnimationFrame (captured handles)
    inFlight,       \* detectForVideo calls that have not resolved yet
    canvas,         \* what the canvas shows: blank, frame, landmarks
    intervals,      \* live setInterval timers: quanta elapsed since each was (re)armed
    skipped,        \* history: some detectFace call found its handle absent
    zeroRun,        \* history: zero-face detections completed in a row (saturating)
    frozenTimer,    \* history: timer when the current zero-face run began
    mock,           \* the scripted detector's clock (unused under Spec)
    sinceChange     \* history: quanta since timer or timerRunning last changed (saturating)

vars == <<component, mounted, timer, timerRunning, faceLandmarker, isStarted,
          loader, camera, video, listeners, rafQueue, inFlight, canvas,
          intervals, skipped, zeroRun, frozenTimer, mock, sinceChange>>

----------------------------------------------------------------------------
(* Bounds of the model *)

StepsPerPeriod == 2

MaxOverrun == 2

MaxZeroRun == 3

(* Program constants *)

InitialTimer == 30 * 60

NumFaces == 1

Null == "null"

Loaded == "loaded"

Components == {"WithStart", "AutoStart"}

----------------------------------------------------------------------------
(* Render *)

\* Variant: the Start button is rendered unconditionally.
StartButtonAlwaysShown == TRUE

\* The Start button is rendered only while isStarted is false.
StartButtonShown == ~isStarted

\* Variant: detectFace keeps the canvas element it saw first instead of
\* reading canvasRef.current on every call.
CanvasRefCaptured == "canvas"

\* canvasRef.current: the <canvas> is rendered when isStarted (WithStart) or
\* always (AutoStart); React sets the ref back to null on unmount.
CanvasRefCurrent ==
    IF mounted /\ (component = "AutoStart" \/ isStarted) THEN "canvas" ELSE Null

\* videoRef.current: the <video> is always rendered while mounted.
VideoRefCurrent == IF mounted THEN "video" ELSE Null

\* The stream handed over by getUserMedia is live: no code stops its tracks
\* or clears srcObject, so it stays live from the grant on.
StreamLive == camera = "granted"

\* The frame loop was started by loadeddata and has ended with the component
\* still mounted: no frame callback is registered and no detection is running.
FrameLoopDead ==
    /\ mounted /\ video = "loaded" /\ inFlight = 0 /\ rafQueue = <<>>
    /\ \E i \in DOMAIN listeners : listeners[i] = Loaded

(* The readout: Time remaining: ${Math.floor(timer / 60)}:${(timer % 60)   *)
(* .toString().padStart(2, '0')}.  A string is a sequence of characters.   *)

DigitChars == <<"0", "1", "2", "3", "4", "5", "6", "7", "8", "9">>

RECURSIVE NumberToString(_)
\* Number.prototype.toString (and template interpolation) of an integer.
NumberToString(n) ==
    IF n < 0 THEN <<"-">> \o NumberToString(-n)
    ELSE IF n < 10 THEN <<DigitChars[n + 1]>>
    ELSE NumberToString(n \div 10) \o <<DigitChars[(n % 10) + 1]>>

\* Variant: no padding at all.
PadStartNone(str, targetLength, pad) == str

RECURSIVE PadStart(_, _, _)
\* String.prototype.padStart with a one-character pad.
PadStart(str, targetLength, pad) ==
    IF Len(str) >= targetLength THEN str
    ELSE PadStart(<<pad>> \o str, targetLength, pad)

\* The % of JavaScript: the result takes the sign of the dividend.
JsRemainder(a, b) == IF a >= 0 THEN a % b ELSE -((-a) % b)

\* Math.floor(a / b) for b > 0.
MathFloorDiv(a, b) == a \div b

Readout(t) ==
    NumberToString(MathFloorDiv(t, 60)) \o <<":">>
        \o PadStart(NumberToString(JsRemainder(t, 60)), 2, "0")

\* What the component shows after "Time remaining: ".
TimeRemaining == Readout(timer)

----------------------------------------------------------------------------
(* The timer effect, deps [timerRunning, timer] *)

\* Variant: the effect returns no cleanup, intervals are never cleared.
TimerEffectCleanupNone(ivs, wasRunning) == ivs

\* The cleanup returned by the effect run that saw timerRunning = wasRunning:
\* it clears the interval that run created (the youngest one), if any.
TimerEffectCleanup(ivs, wasRunning) ==
    IF wasRunning /\ ivs # <<>> THEN SubSeq(ivs, 1, Len(ivs) - 1) ELSE ivs

\* Variant: the effect creates an interval whatever timerRunning is.
TimerEffectSetupAlways(ivs, running) == Append(ivs, 0)

\* Variant: the new interval is armed as already due (it fires at once
\* instead of one period after it was created).
TimerEffectSetupDue(ivs, running) ==
    IF running THEN Append(ivs, StepsPerPeriod) ELSE ivs

\* The body of the effect: a fresh interval when timerRunning.
TimerEffectSetup(ivs, running) ==
    IF running THEN Append(ivs, 0) ELSE ivs

\* A re-run of the effect: cleanup of the previous run, then the body.
RunTimerEffect(ivs, wasRunning, running) ==
    TimerEffectSetup(TimerEffectCleanup(ivs, wasRunning), running)

IntervalDue == \E i \in DOMAIN intervals : intervals[i] >= StepsPerPeriod

----------------------------------------------------------------------------
(* detectFace *)

\* Variant: the length test is off by one (>= 0).
FacePresentAlways(n) == n >= 0

\* Variant: the length test is inverted.
FacePresentInverted(n) == n = 0

\* results.faceLandmarks.length > 0
FacePresent(n) == n > 0

\* Variant: detectFace does not test the handle before detecting.
DetectFaceSyncNoHandleTest(h, s) ==
    IF CanvasRefCurrent = Null THEN s
    ELSE [s EXCEPT !.inFlight = @ + 1]

\* Variant: requestAnimationFrame(detectFace) is called before the await.
DetectFaceSyncEagerRearm(h, s) ==
    IF h = Null THEN [s EXCEPT !.skipped = TRUE]
    ELSE IF CanvasRefCurrent = Null THEN s
    ELSE [s EXCEPT !.inFlight = @ + 1, !.rafQueue = Append(@, h)]

\* Variant: the canvas is cleared and redrawn before the handle is tested.
DetectFaceSyncDrawFirst(h, s) ==
    IF h = Null THEN [s EXCEPT !.skipped = TRUE, !.canvas = "frame"]
    ELSE IF CanvasRefCurrent = Null THEN s
    ELSE [s EXCEPT !.inFlight = @ + 1]

\* The synchronous part of detectFace, run by a closure that captured handle h,
\* on s = [inFlight, rafQueue, canvas, skipped]: nothing when the handle is
\* absent; a TypeError on canvasRef.current when the canvas is gone; else one
\* detectForVideo call is issued and awaited.
DetectFaceSync(h, s) ==
    IF h = Null THEN [s EXCEPT !.skipped = TRUE]
    ELSE IF CanvasRefCurrent = Null THEN s
    ELSE [s EXCEPT !.inFlight = @ + 1]

RECURSIVE DispatchLoadedData(_, _)
\* The loadeddata event calls the registered listeners in order.
DispatchLoadedData(ls, s) ==
    IF ls = <<>> THEN s
    ELSE DispatchLoadedData(Tail(ls), DetectFaceSync(Head(ls), s))

LoopState == [inFlight |-> inFlight, rafQueue |-> rafQueue,
              canvas |-> canvas, skipped |-> skipped]

----------------------------------------------------------------------------
\* The scripted detector's clock before its first answer.
NoMock == [period |-> 0, clock |-> 0, sampled |-> FALSE]

\* The state after the first render and its effects (lines 9-14).  The
\* AutoStart edition has by then called startWebcam (lines 191-198) and
\* registered the detectFace of the first render, whose faceLandmarker is
\* null, as loadeddata listener (lines 260-265).
Init ==
    /\ component \in Components
    /\ mounted = TRUE
    /\ timer = InitialTimer
    /\ timerRunning = FALSE
    /\ faceLandmarker = Null
    /\ isStarted = FALSE
    /\ loader = "pending"
    /\ camera = IF component = "AutoStart" THEN "requested" ELSE "idle"
    /\ video = "empty"
    /\ listeners = IF component = "AutoStart" THEN <<Null>> ELSE <<>>
    /\ rafQueue = <<>>
    /\ inFlight = 0
    /\ canvas = "blank"
    /\ intervals = <<>>
    /\ skipped = FALSE
    /\ zeroRun = 0
    /\ frozenTimer = 0
    /\ mock = NoMock
    /\ sinceChange = 0

----------------------------------------------------------------------------
(* Actions *)

\* loadFaceLandmarker resolves: setFaceLandmarker(faceLandmarker); in the
\* AutoStart edition the effect keyed on faceLandmarker adds the detectFace of
\* the new render as one more loadeddata listener.
LoadFaceLandmarkerResolves ==
    /\ loader = "pending"
    /\ loader' = "resolved"
    /\ faceLandmarker' = IF mounted THEN Loaded ELSE faceLandmarker
    /\ listeners' = IF mounted /\ component = "AutoStart"
                    THEN Append(listeners, Loaded) ELSE listeners
    /\ UNCHANGED <<component, mounted, timer, timerRunning, isStarted, camera,
                   video, rafQueue, inFlight, canvas, intervals, skipped,
                   zeroRun, frozenTimer, mock,
                   sinceChange>>

\* FilesetResolver.forVisionTasks or FaceLandmarker.createFromOptions rejects.
LoadFaceLandmarkerRejects ==
    /\ loader = "pending"
    /\ loader' = "rejected"
    /\ UNCHANGED <<component, mounted, timer, timerRunning, faceLandmarker,
                   isStarted, camera, video, listeners, rafQueue, inFlight,
                   canvas, intervals, skipped, zeroRun, frozenTimer, mock,
                   sinceChange>>

\* handleStart: setIsStarted(true); startWebcamAndDetection() requests the
\* camera and registers the detectFace of the current render on loadeddata.
HandleStart ==
    /\ component = "WithStart"
    /\ mounted
    /\ StartButtonShown
    /\ isStarted' = TRUE
    /\ camera' = "requested"
    /\ listeners' = IF VideoRefCurrent # Null
                    THEN Append(listeners, faceLandmarker) ELSE listeners
    /\ UNCHANGED <<component, mounted, timer, timerRunning, faceLandmarker,
                   loader, video, rafQueue, inFlight, canvas, intervals,
                   skipped, zeroRun, frozenTimer, mock,
                   sinceChange>>

\* getUserMedia resolves: srcObject = stream; play().  With the component
\* unmounted videoRef.current is null and the assignment throws.
GetUserMediaResolves ==
    /\ camera = "requested"
    /\ camera' = "granted"
    /\ video' = IF VideoRefCurrent # Null THEN "loading" ELSE video
    /\ UNCHANGED <<component, mounted, timer, timerRunning, faceLandmarker,
                   isStarted, loader, listeners, rafQueue, inFlight, canvas,
                   intervals, skipped, zeroRun, frozenTimer, mock,
                   sinceChange>>

\* getUserMedia rejects (permission denied, no camera).
GetUserMediaRejects ==
    /\ camera = "requested"
    /\ camera' = "denied"
    /\ UNCHANGED <<component, mounted, timer, timerRunning, faceLandmarker,
                   isStarted, loader, video, listeners, rafQueue, inFlight,
                   canvas, intervals, skipped, zeroRun, frozenTimer, mock,
                   sinceChange>>

\* The video element fires loadeddata (once per srcObject).
LoadedData ==
    /\ video = "loading"
    /\ video' = "loaded"
    /\ LET s == DispatchLoadedData(listeners, LoopState) IN
        /\ inFlight' = s.inFlight
        /\ rafQueue' = s.rafQueue
        /\ canvas' = s.canvas
        /\ skipped' = s.skipped
    /\ UNCHANGED <<component, mounted, timer, timerRunning, faceLandmarker,
                   isStarted, loader, camera, listeners, intervals, zeroRun,
                   frozenTimer, mock,
                   sinceChange>>

\* The browser runs the oldest requestAnimationFrame callback.
FrameCallback ==
    /\ rafQueue # <<>>
    /\ LET s == DetectFaceSync(Head(rafQueue),
                               [LoopState EXCEPT !.rafQueue = Tail(rafQueue)]) IN
        /\ inFlight' = s.inFlight
        /\ rafQueue' = s.rafQueue
        /\ canvas' = s.canvas
        /\ skipped' = s.skipped
    /\ UNCHANGED <<component, mounted, timer, timerRunning, faceLandmarker,
                   isStarted, loader, camera, video, listeners, intervals,
                   zeroRun, frozenTimer, mock,
                   sinceChange>>

\* detectFace continues after `await detectForVideo` with n faces: clearRect
\* and drawImage, the landmarks and setTimerRunning(true) or
\* setTimerRunning(false), then requestAnimationFrame(detectFace).  With the
\* canvas gone, canvasRef.current!.width throws before anything is drawn.
DetectFaceResume(n) ==
    /\ inFlight > 0
    /\ inFlight' = inFlight - 1
    /\ IF CanvasRefCurrent = Null
       THEN UNCHANGED <<canvas, timerRunning, intervals, rafQueue, zeroRun,
                        frozenTimer, sinceChange>>
       ELSE /\ canvas' = IF FacePresent(n) THEN "landmarks" ELSE "frame"
            /\ timerRunning' = FacePresent(n)
            /\ intervals' = IF FacePresent(n) = timerRunning THEN intervals
                            ELSE RunTimerEffect(intervals, timerRunning,
                                                FacePresent(n))
            /\ rafQueue' = Append(rafQueue, Loaded)
            /\ zeroRun' = IF n > 0 THEN 0
                          ELSE IF zeroRun < MaxZeroRun THEN zeroRun + 1
                          ELSE zeroRun
            /\ frozenTimer' = IF n > 0 THEN 0
                              ELSE IF zeroRun = 0 THEN timer ELSE frozenTimer
            /\ sinceChange' = IF timerRunning' # timerRunning THEN 0
                              ELSE sinceChange
    /\ UNCHANGED <<component, mounted, timer, faceLandmarker, isStarted,
                   loader, camera, video, listeners, skipped>>

\* The detector answers with 0..NumFaces faces.
DetectResolves ==
    /\ \E n \in 0..NumFaces : DetectFaceResume(n)
    /\ UNCHANGED mock

\* detectForVideo throws: the async detectFace rejects, nothing after the
\* await runs.
DetectRejects ==
    /\ inFlight > 0
    /\ inFlight' = inFlight - 1
    /\ UNCHANGED <<component, mounted, timer, timerRunning, faceLandmarker,
                   isStarted, loader, camera, video, listeners, rafQueue,
                   canvas, intervals, skipped, zeroRun, frozenTimer, mock,
                   sinceChange>>

\* Variant: the updater takes two seconds off per callback.
IntervalCallbackByTwo ==
    /\ timer > -MaxOverrun
    /\ \E i \in DOMAIN intervals :
        /\ intervals[i] >= StepsPerPeriod
        /\ timer' = IF mounted THEN timer - 2 ELSE timer
        /\ intervals' = IF mounted
                        THEN RunTimerEffect([intervals EXCEPT ![i] = 0],
                                            timerRunning, timerRunning)
                        ELSE [intervals EXCEPT ![i] = 0]
    /\ sinceChange' = IF timer' # timer THEN 0 ELSE sinceChange
    /\ UNCHANGED <<component, mounted, timerRunning, faceLandmarker, isStarted,
                   loader, camera, video, listeners, rafQueue, inFlight,
                   canvas, skipped, zeroRun, frozenTimer, mock>>

\* A due interval runs setTimer(prevTimer => prevTimer - 1); timer changed, so
\* the timer effect re-runs.  The countdown is followed MaxOverrun below zero.
IntervalCallback ==
    /\ timer > -MaxOverrun
    /\ \E i \in DOMAIN intervals :
        /\ intervals[i] >= StepsPerPeriod
        /\ timer' = IF mounted THEN timer - 1 ELSE timer
        /\ intervals' = IF mounted
                        THEN RunTimerEffect([intervals EXCEPT ![i] = 0],
                                            timerRunning, timerRunning)
                        ELSE [intervals EXCEPT ![i] = 0]
    /\ sinceChange' = IF timer' # timer THEN 0 ELSE sinceChange
    /\ UNCHANGED <<component, mounted, timerRunning, faceLandmarker, isStarted,
                   loader, camera, video, listeners, rafQueue, inFlight,
                   canvas, skipped, zeroRun, frozenTimer, mock>>

\* One quantum passes; a due interval callback runs before time moves on.
Advance ==
    /\ intervals # <<>>
    /\ ~IntervalDue
    /\ intervals' = [i \in DOMAIN intervals |-> intervals[i] + 1]
    /\ sinceChange' = IF sinceChange < StepsPerPeriod THEN sinceChange + 1
                      ELSE sinceChange
    /\ UNCHANGED <<component, mounted, timer, timerRunning, faceLandmarker,
                   isStarted, loader, camera, video, listeners, rafQueue,
                   inFlight, canvas, skipped, zeroRun, frozenTimer, mock>>

\* The component is unmounted: the cleanup of the timer effect runs and the
\* refs are detached.  Nothing cancels the pending frame callback, the
\* in-flight detection or the camera request.
Unmount ==
    /\ mounted
    /\ mounted' = FALSE
    /\ intervals' = TimerEffectCleanup(intervals, timerRunning)
    /\ UNCHANGED <<component, timer, timerRunning, faceLandmarker, isStarted,
                   loader, camera, video, listeners, rafQueue, inFlight,
                   canvas, skipped, zeroRun, frozenTimer, mock,
                   sinceChange>>

Next ==
    \/ LoadFaceLandmarkerResolves
    \/ LoadFaceLandmarkerRejects
    \/ HandleStart
    \/ GetUserMediaResolves
    \/ GetUserMediaRejects
    \/ LoadedData
    \/ FrameCallback
    \/ DetectResolves
    \/ DetectRejects
    \/ IntervalCallback
    \/ Advance
    \/ Unmount

Spec == Init /\ [][Next]_vars

----------------------------------------------------------------------------
(* The scripted detector: a session driven by a mocked detector whose answer *)
(* depends on the one-second period in which the detection resolves.  The   *)
(* first period begins when the first detection resolves; every period is   *)
(* sampled before time moves on; the detector never throws and the          *)
(* component stays mounted.                                                 *)

\* Faces reported in each of four consecutive periods:
\* present, present, absent, present.
Script == <<1, 1, 0, 1>>

DetectResolvesScripted ==
    /\ mock.period <= Len(Script)
    /\ LET p == IF mock.period = 0 THEN 1 ELSE mock.period IN
        /\ DetectFaceResume(Script[p])
        /\ mock' = [period |-> p, clock |-> mock.clock, sampled |-> TRUE]

\* One quantum passes; the period ends after StepsPerPeriod quanta.
AdvanceScripted ==
    /\ mock.period \in 1..Len(Script)
    /\ mock.sampled
    /\ ~IntervalDue
    /\ intervals' = [i \in DOMAIN intervals |-> intervals[i] + 1]
    /\ mock' = IF mock.clock + 1 = StepsPerPeriod
               THEN [period |-> mock.period + 1, clock |-> 0, sampled |-> FALSE]
               ELSE [mock EXCEPT !.clock = @ + 1]
    /\ sinceChange' = IF sinceChange < StepsPerPeriod THEN sinceChange + 1
                      ELSE sinceChange
    /\ UNCHANGED <<component, mounted, timer, timerRunning, faceLandmarker,
                   isStarted, loader, camera, video, listeners, rafQueue,
                   inFlight, canvas, skipped, zeroRun, frozenTimer>>

NextScript ==
    \/ LoadFaceLandmarkerResolves
    \/ LoadFaceLandmarkerRejects
    \/ HandleStart
    \/ GetUserMediaResolves
    \/ GetUserMediaRejects
    \/ LoadedData
    \/ FrameCallback
    \/ DetectResolvesScripted
    \/ IntervalCallback
    \/ AdvanceScripted

SpecScript == Init /\ [][NextScript]_vars

TypeOK ==
    /\ component \in Components
    /\ mounted \in BOOLEAN
    /\ timer \in -MaxOverrun..InitialTimer
    /\ timerRunning \in BOOLEAN
    /\ faceLandmarker \in {Null, Loaded}
    /\ isStarted \in BOOLEAN
    /\ loader \in {"pending", "resolved", "rejected"}
    /\ camera \in {"idle", "requested", "granted", "denied"}
    /\ video \in {"empty", "loading", "loaded"}
    /\ canvas \in {"blank", "frame", "landmarks"}
    /\ inFlight \in Nat
    /\ zeroRun \in 0..MaxZeroRun

----------------------------------------------------------------------------
(* Properties *)

\* C1: the countdown decrements only while timerRunning is true: every step
\* that lowers timer is taken with timerRunning = TRUE, and a step taken with
\* timerRunning = FALSE leaves timer unchanged.
C1_DecrementOnlyWhileRunning ==
    [][/\ timer' < timer => timerRunning
       /\ ~timerRunning => timer' = timer]_vars

\* C1 witness: the countdown has run and is now paused.
C1_Witness == timer < InitialTimer /\ ~timerRunning /\ mounted

\* C2: timer is never below 0.
C2_TimerNonNegative == timer >= 0

\* C3: single-flight: at most one detectForVideo call is outstanding, and a
\* frame callback is registered only when no detection call is outstanding
\* (so at most one of them exists at a time).
C3_SingleFlight ==
    /\ inFlight <= 1
    /\ Len(rafQueue) <= 1
    /\ inFlight = 1 => rafQueue = <<>>

\* C3 witness: a detection call is outstanding in a loop that has already
\* completed a tick and re-armed.
C3_Witness == inFlight = 1 /\ canvas # "blank" /\ mounted

\* C4: when loadeddata arms the loop while the detector handle is still
\* absent, the skipped tick leaves a next tick registered, so that the handle
\* is re-checked once the detector is loaded.
C4_SkippedTickRearms ==
    [][(mounted /\ video = "loading" /\ video' = "loaded"
        /\ faceLandmarker = Null /\ listeners # <<>>)
       => rafQueue' # <<>>]_vars

\* C5: once the loop has been started by loadeddata, a next tick is always
\* registered or a detection is running, until the component is unmounted.
C5_LoopAliveUntilTeardown ==
    (mounted /\ video = "loaded") => (rafQueue # <<>> \/ inFlight > 0)

\* C6: after unmount no interval is registered, no step changes timer,
\* timerRunning or the canvas, no frame callback is registered and no
\* detection call is issued.
C6_TeardownStopsEverything ==
    [][~mounted' =>
        /\ intervals' = <<>>
        /\ ~mounted => /\ UNCHANGED <<timer, timerRunning, canvas>>
                       /\ Len(rafQueue') <= Len(rafQueue)
                       /\ inFlight' <= inFlight]_vars

\* C6 witness: the component was unmounted with a detection call in flight,
\* after the countdown had run.
C6_Witness == ~mounted /\ inFlight = 1 /\ timer < InitialTimer

\* C7: during a run of consecutive zero-face ticks timerRunning is false from
\* the first tick on and timer keeps the value it had after the first tick.
C7_ZeroFacesFreeze ==
    zeroRun >= 1 => (~timerRunning /\ timer = frozenTimer)

\* C7 witness: MaxZeroRun zero-face ticks in a row after the countdown ran,
\* with a further detection outstanding.
C7_Witness == zeroRun = MaxZeroRun /\ timer < InitialTimer /\ mounted

\* C8: a detectFace call that finds the detector handle absent leaves the
\* canvas, timerRunning and timer as they were.
C8_AbsentHandleNoEffect ==
    [][(~skipped /\ skipped') => UNCHANGED <<canvas, timerRunning, timer>>]_vars

\* C8 witness: a tick has run with the handle absent.
C8_Witness == skipped /\ video = "loaded" /\ faceLandmarker = Null

\* C9: with the outcomes present, present, absent, present over four
\* consecutive one-second periods, when the four periods are over and every
\* interval callback due by then has run, timer is exactly 3 below its start.
C9_ThreeDecrements ==
    (mock.period = Len(Script) + 1 /\ ~IntervalDue) => timer = InitialTimer - 3

\* C10: isStarted is false at mount and, once true, stays true; after it is
\* true no step registers another loadeddata listener or issues another
\* camera request.
C10_StartAtMostOnce ==
    /\ isStarted = FALSE
    /\ [][(component = "WithStart" /\ isStarted) =>
            /\ isStarted'
            /\ listeners' = listeners
            /\ camera' = "requested" => camera = "requested"]_vars

\* C10 witness: Start was taken and the session ran on.
C10_Witness ==
    component = "WithStart" /\ isStarted /\ camera = "granted"
    /\ canvas = "landmarks"

\* C11: after any failure (camera request rejected, detector bootstrap
\* rejected, frame loop ended by a failed detection) the Start action is
\* available again.
C11_FailureRecoverableByStart ==
    (component = "WithStart" /\ mounted
     /\ (camera = "denied" \/ loader = "rejected" \/ FrameLoopDead))
    => StartButtonShown

\* C12: every detection call that ends while the component is mounted,
\* whether it resolved or threw, leaves a next tick registered.
C12_FailedDetectionContinues ==
    [][(inFlight' < inFlight /\ CanvasRefCurrent # Null)
       => rafQueue' # <<>>]_vars

\* C16: once the component is unmounted no camera stream is live.
C16_StreamReleasedOnTeardown == ~mounted => ~StreamLive

RECURSIVE ParseDecimal(_)
\* The number a sequence of decimal digits denotes.
ParseDecimal(str) ==
    IF str = <<>> THEN 0
    ELSE 10 * ParseDecimal(SubSeq(str, 1, Len(str) - 1))
         + (CHOOSE d \in 0..9 : DigitChars[d + 1] = str[Len(str)])

\* C13: for timer >= 0 the readout is the decimal numeral of timer div 60
\* (no leading zero), one colon, and exactly two digits that denote
\* timer mod 60; 1800 reads 30:00, 59 reads 0:59 and 0 reads 0:00.
C13_ReadoutFormat ==
    timer >= 0 =>
        LET r == TimeRemaining
            colons == {i \in DOMAIN r : r[i] = ":"}
            k == CHOOSE i \in colons : TRUE
            minutes == SubSeq(r, 1, k - 1)
            seconds == SubSeq(r, k + 1, Len(r))
        IN  /\ Cardinality(colons) = 1
            /\ Len(minutes) >= 1
            /\ Len(minutes) > 1 => minutes[1] # "0"
            /\ ParseDecimal(minutes) = timer \div 60
            /\ Len(seconds) = 2
            /\ ParseDecimal(seconds) = timer % 60
            /\ timer = 1800 => r = <<"3", "0", ":", "0", "0">>
            /\ timer = 59 => r = <<"0", ":", "5", "9">>
            /\ timer = 0 => r = <<"0", ":", "0", "0">>

\* C13 witness: the countdown has reached 0:59, a readout with a one-digit
\* minute.
C13_Witness == timer = 59 /\ TimeRemaining = <<"0", ":", "5", "9">>

\* C14: a step in which a detection call completes (the call ends and the
\* next tick is registered) leaves timerRunning equal to the outcome of that
\* call, and the canvas shows landmarks exactly when a face was returned.
\* zeroRun' = 0 records that the call returned a face.
C14_TimerRunningFollowsOutcome ==
    [][(inFlight' < inFlight /\ Len(rafQueue') > Len(rafQueue)) =>
        /\ timerRunning' = (zeroRun' = 0)
        /\ (canvas' = "landmarks") = (zeroRun' = 0)]_vars

\* C14 witness: after the countdown ran, a detection completed without a
\* face: the frame is drawn without landmarks and the timer is paused.
C14_Witness ==
    mounted /\ zeroRun = 1 /\ canvas = "frame" /\ ~timerRunning
    /\ timer < InitialTimer /\ rafQueue # <<>>

\* C15: at most one interval is registered at any time, and one is
\* registered only while timerRunning is true and the component is mounted.
C15_AtMostOneInterval ==
    /\ Len(intervals) <= 1
    /\ intervals # <<>> => (timerRunning /\ mounted)

\* C15 witness: the interval re-created after a decrement has run a full
\* period.
C15_Witness ==
    Len(intervals) = 1 /\ intervals[1] = StepsPerPeriod
    /\ timer < InitialTimer

\* C17: timer is 1800 at mount and every step that changes it lowers it by
\* exactly 1.
C17_DecrementByOne ==
    /\ timer = 1800
    /\ [][timer' # timer => timer' = timer - 1]_vars

\* C17 witness: two decrements have happened.
C17_Witness == timer = InitialTimer - 2

\* C18: every step that changes timer or timerRunning leaves only freshly
\* armed intervals, and a step that lowers timer is taken with timerRunning
\* true and a full period elapsed since timer or timerRunning last changed
\* (so outcomes that flip within every period never let timer decrement).
C18_IntervalRestartsOnChange ==
    [][/\ (timer' # timer \/ timerRunning' # timerRunning) =>
            \A i \in DOMAIN intervals' : intervals'[i] = 0
       /\ timer' < timer =>
            (timerRunning /\ sinceChange >= StepsPerPeriod)]_vars

\* C18 witness: a face is present again after a pause and the interval
\* starts its period anew.
C18_Witness ==
    timerRunning /\ intervals = <<0>> /\ sinceChange = 0
    /\ timer < InitialTimer /\ zeroRun = 0 /\ inFlight = 1

\* C19: timerRunning implies that the detector handle is loaded and (in the
\* edition with a Start button) that isStarted is true; before Start is taken
\* timer is 1800.
C19_NoCountdownBeforeStart ==
    /\ timerRunning =>
        (faceLandmarker = Loaded /\ (component = "WithStart" => isStarted))
    /\ (component = "WithStart" /\ ~isStarted) => timer = InitialTimer

\* C19 witness: the countdown runs in a started session.
C19_Witness ==
    component = "WithStart" /\ isStarted /\ timerRunning
    /\ timer < InitialTimer /\ faceLandmarker = Loaded
====
